---- MODULE Spec2Model ----
(***************************************************************************)
(* Model of translator/main.py: an English <-> Urdu chat translator with   *)
(* a session history capped at ten entries and mirrored to the file        *)
(* translation_history.json.                                               *)
(*                                                                         *)
(* A Python str is a Text: a sequence of symbols.  A symbol is one         *)
(* character, or, for the literal messages of the program, a run of        *)
(* ordinary characters (no quote, backslash, newline or JSON punctuation)  *)
(* written as a single symbol.  Characters outside ASCII are named by      *)
(* their code point ("U+0633").                                            *)
(***************************************************************************)
EXTENDS Integers, Sequences, FiniteSets, TLC

\* ------------------------------------------------------------------ bounds
\* number of handle_message turns explored over all sessions
MaxTurns == 2
\* number of collaborator failures injected into handle_message turns
MaxFaults == 1
\* longest history list found in the file when the system starts
MaxFileLen == 11
\* longest text handed to detect_language on its own
MaxTextLen == 3

\* --------------------------------------------------------- program constants
\* history[-10:]
MaxHistory == 10

Sessions == {1, 2}

\* ------------------------------------------------------------------- symbols
QUOTE == "\""
BSL == "\\"
NL == "\n"
SP == " "
\* U+0633, U+0644: Arabic letters; U+061F: Arabic question mark
ArabicLetters == {"U+0633", "U+0644"}
ArabicBlock == ArabicLetters \cup {"U+061F"}
LatinUpper == {"A", "C", "E", "H", "L", "R"}
LatinLower == {"a", "c", "e", "h", "i", "l", "n", "o", "r", "s", "t", "x", "y"}
\* U+00E9: Latin small letter e with acute, a Latin letter outside a-z
LatinExtended == {"U+00E9"}
Digits == {"1", "2"}
Whitespace == {SP, NL}

\* str.lower() on one character
LowerOf ==
  [c \in LatinUpper |->
     CASE c = "A" -> "a" [] c = "C" -> "c" [] c = "E" -> "e"
       [] c = "H" -> "h" [] c = "L" -> "l" [] c = "R" -> "r"]

Str(sym) == <<sym>>

\* --------------------------------------------------------------- str methods
RECURSIVE lstrip(_)
lstrip(text) ==
  IF text # <<>> /\ Head(text) \in Whitespace THEN lstrip(Tail(text)) ELSE text

RECURSIVE rstrip(_)
rstrip(text) ==
  IF text # <<>> /\ text[Len(text)] \in Whitespace
  THEN rstrip(SubSeq(text, 1, Len(text) - 1))
  ELSE text

strip(text) == rstrip(lstrip(text))

lower(text) ==
  [i \in 1..Len(text) |->
     IF text[i] \in LatinUpper THEN LowerOf[text[i]] ELSE text[i]]

startswith(text, prefix) ==
  /\ Len(text) >= Len(prefix)
  /\ SubSeq(text, 1, Len(prefix)) = prefix

\* the concatenation of a sequence of texts (halving keeps the nesting shallow)
RECURSIVE Concat(_)
Concat(texts) ==
  IF Len(texts) = 0 THEN <<>>
  ELSE IF Len(texts) = 1 THEN texts[1]
  ELSE LET m == Len(texts) \div 2
       IN  Concat(SubSeq(texts, 1, m)) \o Concat(SubSeq(texts, m + 1, Len(texts)))

\* sep.join(texts)
join(sep, texts) ==
  Concat([i \in 1..(2 * Len(texts) - 1) |->
            IF i % 2 = 1 THEN texts[(i + 1) \div 2] ELSE sep])

\* ----------------------------------------------------------- validate_input
\* \w of a str pattern is Unicode-aware: letters of any script, digits, "_"
WordChars ==
  LatinUpper \cup LatinLower \cup LatinExtended \cup Digits \cup ArabicLetters \cup {"_"}
LatinClass == WordChars \cup Whitespace \cup {".", ",", "!", "?", "'", QUOTE, "-"}
ArabicClass == ArabicBlock \cup Whitespace \cup {".", ",", "!", "?"}

validate_input(text) ==
  IF text = <<>> \/ strip(text) = <<>> THEN FALSE
  ELSE \/ \A i \in 1..Len(text) : text[i] \in LatinClass
       \/ \A i \in 1..Len(text) : text[i] \in ArabicClass

\* ---------------------------------------------------------- detect_language
\* the Latin test made before the Arabic one
detect_language_LatinFirst(text) ==
  IF \E i \in 1..Len(text) : text[i] \in LatinUpper \cup LatinLower THEN "en"
  ELSE IF \E i \in 1..Len(text) : text[i] \in ArabicBlock THEN "ur"
  ELSE "unknown"

detect_language(text) ==
  IF \E i \in 1..Len(text) : text[i] \in ArabicBlock THEN "ur"
  ELSE IF \E i \in 1..Len(text) : text[i] \in LatinUpper \cup LatinLower THEN "en"
  ELSE "unknown"

\* ------------------------------------------------------------ history entry
\* {"role": ..., "content": ..., "timestamp": ...}
Entry(role, content, timestamp) ==
  [role |-> Str(role), content |-> content, timestamp |-> timestamp]

\* insertion order of the keys of an entry dict
KeyOrder == <<"role", "content", "timestamp">>

\* ---------------------------------------------------- json.dump / json.load
\* The file holds the serialised text.  Only the JSON the program writes is
\* covered: an array of objects whose keys are single symbols and whose
\* values are strings; any other text is a parse failure.
\* the quote left out of the escape table
ESCAPE_DCT_NoQuote(c) ==
  IF c = BSL THEN <<BSL, BSL>>
  ELSE IF c = NL THEN <<BSL, "n">>
  ELSE <<c>>

ESCAPE_DCT(c) ==
  IF c = QUOTE THEN <<BSL, QUOTE>>
  ELSE IF c = BSL THEN <<BSL, BSL>>
  ELSE IF c = NL THEN <<BSL, "n">>
  ELSE <<c>>

py_encode_basestring(text) == Concat([i \in 1..Len(text) |-> ESCAPE_DCT(text[i])])

EncodeString(text) == <<QUOTE>> \o py_encode_basestring(text) \o <<QUOTE>>

EncodeDict(entry) ==
  LET keys == SelectSeq(KeyOrder, LAMBDA k : k \in DOMAIN entry)
      items == [i \in 1..Len(keys) |->
                  EncodeString(Str(keys[i])) \o <<":", SP>> \o EncodeString(entry[keys[i]])]
  IN  <<"{">> \o join(<<",", SP>>, items) \o <<"}">>

json_dump(history) ==
  <<"[">> \o join(<<",", SP>>, [i \in 1..Len(history) |-> EncodeDict(history[i])]) \o <<"]">>

ParseFail == [ok |-> FALSE, val |-> <<>>, next |-> 0]

RECURSIVE SkipWs(_, _)
SkipWs(toks, i) ==
  IF i <= Len(toks) /\ toks[i] \in Whitespace THEN SkipWs(toks, i + 1) ELSE i

BACKSLASH == [c \in {QUOTE, BSL, "n"} |-> IF c = "n" THEN NL ELSE c]

\* the backslashes that end just before position j, none before position lo
RECURSIVE BackslashRun(_, _, _)
BackslashRun(toks, lo, j) ==
  IF j > lo /\ toks[j - 1] = BSL THEN 1 + BackslashRun(toks, lo, j - 1) ELSE 0

\* position j of a string body that starts at lo follows an escaping backslash
IsEscaped(toks, lo, j) == BackslashRun(toks, lo, j) % 2 = 1

\* the first position of lo..hi that holds the closing quote, or 0
RECURSIVE FirstClose(_, _, _, _)

FirstCloseRight(toks, start, l, m, hi) ==
  IF l # 0 THEN l ELSE FirstClose(toks, start, m + 1, hi)

FirstClose(toks, start, lo, hi) ==
  IF lo > hi THEN 0
  ELSE IF lo = hi
       THEN IF toks[lo] = QUOTE /\ ~IsEscaped(toks, start, lo) THEN lo ELSE 0
  ELSE FirstCloseRight(toks, start, FirstClose(toks, start, lo, (lo + hi) \div 2),
                       (lo + hi) \div 2, hi)

\* the characters of a string body, escapes resolved
Unescaped(toks, i, kept) ==
  [n \in 1..Len(kept) |->
     IF IsEscaped(toks, i, kept[n]) THEN BACKSLASH[toks[kept[n]]] ELSE toks[kept[n]]]

\* py_scanstring: the string whose body starts at i and whose closing quote
\* is at close
ScanString(toks, i, close) ==
  IF close = 0 THEN ParseFail
  ELSE IF \E k \in i..(close - 1) :
            \/ toks[k] = NL
            \/ IsEscaped(toks, i, k) /\ toks[k] \notin DOMAIN BACKSLASH
       THEN ParseFail
  ELSE [ok |-> TRUE,
        val |-> Unescaped(toks, i,
                  SelectSeq([k \in 1..(close - i) |-> i + k - 1],
                            LAMBDA k : ~(toks[k] = BSL /\ ~IsEscaped(toks, i, k)))),
        next |-> close + 1]

ParseString(toks, i) ==
  IF i <= Len(toks) /\ toks[i] = QUOTE
  THEN ScanString(toks, i + 1, FirstClose(toks, i + 1, i + 1, Len(toks)))
  ELSE ParseFail

\* the dict of a list of (key, value) pairs; a repeated key keeps its last value
MakeDict(pairs) ==
  [k \in {pairs[i][1] : i \in 1..Len(pairs)} |->
     LET last == CHOOSE i \in 1..Len(pairs) :
                   /\ pairs[i][1] = k
                   /\ \A j \in (i + 1)..Len(pairs) : pairs[j][1] # k
     IN  pairs[last][2]]

\* JSONObject: the members of an object, one stage per token expected:
\* key, colon, value, then a comma or the closing brace
RECURSIVE ParseMembers(_, _, _)

MemberNext(toks, e, acc) ==
  IF e > Len(toks) THEN ParseFail
  ELSE IF toks[e] = "," THEN ParseMembers(toks, e + 1, acc)
  ELSE IF toks[e] = "}" THEN [ok |-> TRUE, val |-> MakeDict(acc), next |-> e + 1]
  ELSE ParseFail

MemberEnd(toks, k, v, acc) ==
  IF ~v.ok THEN ParseFail
  ELSE MemberNext(toks, SkipWs(toks, v.next), Append(acc, <<k.val[1], v.val>>))

MemberValue(toks, k, c, acc) ==
  IF c > Len(toks) \/ toks[c] # ":" THEN ParseFail
  ELSE MemberEnd(toks, k, ParseString(toks, SkipWs(toks, c + 1)), acc)

MemberColon(toks, k, acc) ==
  IF ~k.ok \/ Len(k.val) # 1 THEN ParseFail
  ELSE MemberValue(toks, k, SkipWs(toks, k.next), acc)

ParseMembers(toks, i, acc) ==
  MemberColon(toks, ParseString(toks, SkipWs(toks, i)), acc)

ObjectBody(toks, i, j) ==
  IF j <= Len(toks) /\ toks[j] = "}"
  THEN [ok |-> TRUE, val |-> MakeDict(<<>>), next |-> j + 1]
  ELSE ParseMembers(toks, i, <<>>)

ParseObject(toks, i) ==
  IF i > Len(toks) \/ toks[i] # "{" THEN ParseFail
  ELSE ObjectBody(toks, i + 1, SkipWs(toks, i + 1))

\* JSONArray: the elements of an array: an object, then a comma or the
\* closing bracket
RECURSIVE ParseElements(_, _, _)

ElementNext(toks, e, acc) ==
  IF e > Len(toks) THEN ParseFail
  ELSE IF toks[e] = "," THEN ParseElements(toks, e + 1, acc)
  ELSE IF toks[e] = "]" THEN [ok |-> TRUE, val |-> acc, next |-> e + 1]
  ELSE ParseFail

ElementEnd(toks, o, acc) ==
  IF ~o.ok THEN ParseFail
  ELSE ElementNext(toks, SkipWs(toks, o.next), Append(acc, o.val))

ParseElements(toks, i, acc) ==
  ElementEnd(toks, ParseObject(toks, SkipWs(toks, i)), acc)

ArrayBody(toks, i, j) ==
  IF j <= Len(toks) /\ toks[j] = "]"
  THEN [ok |-> TRUE, val |-> <<>>, next |-> j + 1]
  ELSE ParseElements(toks, i, <<>>)

ParseArray(toks, i) ==
  IF i > Len(toks) \/ toks[i] # "[" THEN ParseFail
  ELSE ArrayBody(toks, i + 1, SkipWs(toks, i + 1))

\* nothing but whitespace may follow the value
LoadEnd(toks, a) ==
  IF a.ok /\ SkipWs(toks, a.next) = Len(toks) + 1 THEN a ELSE ParseFail

\* json.load: the value, or a JSONDecodeError (ok = FALSE)
json_load(toks) == LoadEnd(toks, ParseArray(toks, SkipWs(toks, 1)))

\* ------------------------------------------------- translation_history.json
NoFile == [exists |-> FALSE, data |-> <<>>]

\* outcome "ok": the list is written; "open": open() raises and the file is
\* left as it was; "write_start", "write_end": open() truncated the file and
\* the write raised before the first symbol, or before the last one, reached
\* the file.  The exception is caught and logged in every case.
SaveOutcomes == {"ok", "open", "write_start", "write_end"}

\* what the file holds after open(..., 'w') and json.dump of text
Written(f, text, outcome) ==
  IF outcome = "ok" THEN [exists |-> TRUE, data |-> text]
  ELSE IF outcome = "open" THEN f
  ELSE IF outcome = "write_start" THEN [exists |-> TRUE, data |-> <<>>]
  ELSE [exists |-> TRUE, data |-> SubSeq(text, 1, Len(text) - 1)]

\* the capped list saved instead of the list the turn worked on
save_history_capped(f, history, outcome) ==
  Written(f,
          json_dump(IF Len(history) <= MaxHistory THEN history
                    ELSE SubSeq(history, Len(history) - MaxHistory + 1, Len(history))),
          outcome)

save_history_to_file(f, history, outcome) == Written(f, json_dump(history), outcome)

\* the cap applied to the loaded list
Loaded_Capped(history) ==
  IF ~history.ok THEN <<>>
  ELSE IF Len(history.val) <= MaxHistory THEN history.val
  ELSE SubSeq(history.val, Len(history.val) - MaxHistory + 1, Len(history.val))

\* json.load(f) and the except clause around it
Loaded(history) == IF history.ok THEN history.val ELSE <<>>

\* readable = FALSE: open() or read() raises
load_history_from_file(f, readable) ==
  IF f.exists /\ readable THEN Loaded(json_load(f.data)) ELSE <<>>

\* -------------------------------------------------------------- collaborators
\* socket.create_connection: connects, or raises socket.gaierror,
\* socket.timeout, or another OSError such as ConnectionRefusedError
ProbeOutcomes == {"connected", "gaierror", "timeout", "refused"}

\* check_internet: raised = an exception leaves the function
check_internet(outcome) ==
  [raised |-> outcome \notin {"connected", "gaierror", "timeout"},
   value |-> outcome = "connected"]

\* GoogleTranslator(...).translate(text): the text returned by each handle
Translated(translator_key) ==
  IF translator_key = "en_to_ur" THEN <<"U+0633", "U+0644">> ELSE <<"H", "i">>

\* str(e) of the exceptions the collaborators raise
StrRefused == Str("[Errno 111] Connection refused")
StrTranslate == Str("Request exception can happen due to an api connection error")
StrKeyError(key) == <<"'", key, "'">>

\* ------------------------------------------------------------------ messages
ErrDependencies == Str("Error: Missing dependencies. Run 'pip install deep-translator chainlit python-dotenv'.")
ErrEnvironment == Str("Error: Failed to load environment variables.")
ErrNoInternet == Str("Error: No internet connection. Please check your network.")
ErrInitTranslators == Str("Error: Could not initialize translators.")
Welcome == Str("Welcome to Translation Buddy! Type English or Urdu text, and I'll translate it to the other language. Use '/history' to view past translations or '/clear' to reset history.")
ErrNotInitialized == Str("Error: Translators not initialized.")
ErrInvalidInput == Str("Error: Please provide valid English or Urdu text.")
ErrUnknownLanguage == Str("Error: Unable to detect language. Use clear English or Urdu text.")
ErrUnable(e) == Str("Error: Unable to translate. Check your internet connection. (") \o e \o Str(")")
\* the name of the source language in place of the target's
MsgTranslation_SourceName(target_lang, translated) ==
  <<"Translation to ", IF target_lang = "Urdu" THEN "English" ELSE "Urdu", ":", SP>>
    \o translated

MsgTranslation(target_lang, translated) ==
  <<"Translation to ", target_lang, ":", SP>> \o translated
MsgNoHistory == Str("No translation history available.")
MsgCleared == Str("Translation history cleared.")
MsgUnknownCommand == Str("Unknown command. Available: /history, /clear")
MsgError(e) == <<"Error", ":", SP>> \o e

\* ------------------------------------------------------------ translate_text
\* translators: "pair" (the dict of two handles) or "none" (None, nothing
\* stored in the session).  probe: what the connectivity probe does if made.
\* call: "returns" or "raises", what the translation call does if made.
\* steps: the collaborators called, in call order.
translate_text(translators, text, probe, call) ==
  LET net == check_internet(probe)
      source_lang == detect_language(text)
      translator_key == IF source_lang = "en" THEN "en_to_ur" ELSE "ur_to_en"
      target_lang == IF source_lang = "en" THEN "Urdu" ELSE "English"
  IN
  IF translators = "none"
  THEN [result |-> ErrNotInitialized, steps |-> <<>>]
  ELSE IF net.raised
  THEN [result |-> ErrUnable(StrRefused), steps |-> <<"check_internet">>]
  ELSE IF ~net.value
  THEN [result |-> ErrNoInternet, steps |-> <<"check_internet">>]
  ELSE IF ~validate_input(text)
  THEN [result |-> ErrInvalidInput, steps |-> <<"check_internet", "validate_input">>]
  ELSE IF source_lang = "unknown"
  THEN [result |-> ErrUnknownLanguage,
        steps |-> <<"check_internet", "validate_input", "detect_language">>]
  ELSE IF call = "raises"
  THEN [result |-> ErrUnable(StrTranslate),
        steps |-> <<"check_internet", "validate_input", "detect_language", translator_key>>]
  ELSE [result |-> MsgTranslation(target_lang, Translated(translator_key)),
        steps |-> <<"check_internet", "validate_input", "detect_language", translator_key>>]

\* ----------------------------------------------------------- process_command
\* the stored value of a session key: set = FALSE when the key was never set
Unset == [set |-> FALSE, list |-> <<>>]
Stored(list) == [set |-> TRUE, list |-> list]

\* cl.user_session.get("history", [])
SessionGet(stored) == IF stored.set THEN stored.list ELSE <<>>

\* f"{entry['timestamp']} [{entry['role']}]: {entry['content']}"
RenderEntry(entry) ==
  entry["timestamp"] \o <<SP, "[">> \o entry["role"] \o <<"]", ":", SP>> \o entry["content"]

\* the first key whose lookup raises KeyError while the lines are rendered
MissingKey(history) ==
  LET bad == {i \in 1..Len(history) : ~({"timestamp", "role", "content"} \subseteq DOMAIN history[i])}
      i == CHOOSE j \in bad : \A k \in bad : j <= k
  IN  IF bad = {} THEN "" 
      ELSE IF "timestamp" \notin DOMAIN history[i] THEN "timestamp"
      ELSE IF "role" \notin DOMAIN history[i] THEN "role"
      ELSE "content"

\* an unrecognised command falling into the /history branch
process_command_Fallthrough(command, stored) ==
  LET cmd == strip(lower(command))
      history == SessionGet(stored)
  IN
  IF cmd = <<"/", "c", "l", "e", "a", "r">>
  THEN [raised |-> FALSE, response |-> MsgCleared, stored |-> Stored(<<>>)]
  ELSE IF history = <<>>
  THEN [raised |-> FALSE, response |-> MsgNoHistory, stored |-> stored]
  ELSE IF MissingKey(history) # ""
  THEN [raised |-> TRUE, response |-> StrKeyError(MissingKey(history)), stored |-> stored]
  ELSE [raised |-> FALSE,
        response |-> join(<<NL>>, [i \in 1..Len(history) |-> RenderEntry(history[i])]),
        stored |-> stored]

\* stored: the session's history value when the command runs.
\* Result: the response, or the exception raised; and the stored value after.
process_command(command, stored) ==
  LET cmd == strip(lower(command))
      history == SessionGet(stored)
  IN
  IF cmd = <<"/", "h", "i", "s", "t", "o", "r", "y">>
  THEN IF history = <<>>
       THEN [raised |-> FALSE, response |-> MsgNoHistory, stored |-> stored]
       ELSE IF MissingKey(history) # ""
       THEN [raised |-> TRUE, response |-> StrKeyError(MissingKey(history)), stored |-> stored]
       ELSE [raised |-> FALSE,
             response |-> join(<<NL>>, [i \in 1..Len(history) |-> RenderEntry(history[i])]),
             stored |-> stored]
  ELSE IF cmd = <<"/", "c", "l", "e", "a", "r">>
  THEN [raised |-> FALSE, response |-> MsgCleared, stored |-> Stored(<<>>)]
  ELSE [raised |-> FALSE, response |-> MsgUnknownCommand, stored |-> stored]

\* the cap left out: the whole list is kept
LastN_Uncapped(history, n) == history

\* history[-n:]
LastN(history, n) ==
  IF Len(history) <= n THEN history
  ELSE SubSeq(history, Len(history) - n + 1, Len(history))

\* datetime.now().strftime(...): the clock reading as text
get_current_timestamp(now) == Str(ToString(now))

\* --------------------------------------------------------------------- state
VARIABLES
  phase,    \* per session: "Uninitialized", "Ready" or "Failed"
  trans,    \* per session: user_session "translators": "pair", or "none"
  hist,     \* per session: user_session "history": Stored(list) or Unset
  file,     \* translation_history.json
  disk,     \* what the file text stands for: the list last written in full
  clock,    \* the wall clock
  turns,    \* handle_message turns run so far
  faults,   \* collaborator failures injected into turns so far
  log,      \* per session: the loaded list followed by every entry appended
  obs       \* what the handler that ran last did

vars == <<phase, trans, hist, file, disk, clock, turns, faults, log, obs>>

\* ----------------------------------------------------------- initial file
\* a history the program saved in an earlier run
PriorList(n) ==
  [i \in 1..n |->
     Entry(IF i % 2 = 1 THEN "user" ELSE "assistant", <<"o", "l", "d">>,
           get_current_timestamp(i))]

\* a JSON array whose last entry lacks its timestamp
MalformedList ==
  Append(PriorList(MaxFileLen - 3), [role |-> Str("user"), content |-> <<"o", "l", "d">>])

FileLens == {MaxFileLen - 2, MaxFileLen}

AsList(list) == [kind |-> "list", list |-> list]
Absent == [kind |-> "absent", list |-> <<>>]
Garbage == [kind |-> "garbage", list |-> <<>>]

\* a write that failed part-way leaves a prefix of the text
Truncated(list) == SubSeq(json_dump(list), 1, Len(json_dump(list)) - 1)

InitialFiles ==
  {<<NoFile, Absent>>,
   <<[exists |-> TRUE, data |-> Truncated(PriorList(1))], Garbage>>,
   <<[exists |-> TRUE, data |-> json_dump(MalformedList)], AsList(MalformedList)>>}
  \cup {<<[exists |-> TRUE, data |-> json_dump(PriorList(n))], AsList(PriorList(n))>> :
          n \in FileLens}

Idle ==
  [session |-> 0, handler |-> "none", input |-> <<>>, pre |-> Unset,
   fileChanged |-> FALSE, outbox |-> <<>>, steps |-> <<>>, appended |-> <<>>,
   probe |-> "connected", call |-> "returns", path |-> "normal", escaped |-> FALSE,
   saved |-> "none"]

Init ==
  /\ phase = [s \in Sessions |-> "Uninitialized"]
  /\ trans = [s \in Sessions |-> "none"]
  /\ hist = [s \in Sessions |-> Unset]
  /\ \E f \in InitialFiles : file = f[1] /\ disk = f[2]
  /\ clock = MaxFileLen + 1
  /\ turns = 0
  /\ faults = 0
  /\ log = [s \in Sessions |-> <<>>]
  /\ obs = Idle

\* ---------------------------------------------------------- handle_chat_start
\* one history for all sessions
Started_SharedHistory(s, readable, history) ==
  /\ phase' = [phase EXCEPT ![s] = "Ready"]
  /\ trans' = [trans EXCEPT ![s] = "pair"]
  /\ hist' = [t \in Sessions |-> Stored(history)]
  /\ log' = [log EXCEPT ![s] = history]
  /\ obs' = [Idle EXCEPT !.session = s, !.handler = "start", !.pre = hist[s],
                         !.outbox = <<Welcome>>,
                         !.steps = <<"check_dependencies", "load_environment",
                                     "check_internet", "initialize_translators",
                                     IF readable THEN "load_history_from_file"
                                     ELSE "load_history_from_file!">>]

\* lines 201-208: every check passed; history is the loaded list
Started(s, readable, history) ==
  /\ phase' = [phase EXCEPT ![s] = "Ready"]
  /\ trans' = [trans EXCEPT ![s] = "pair"]
  /\ hist' = [hist EXCEPT ![s] = Stored(history)]
  /\ log' = [log EXCEPT ![s] = history]
  /\ obs' = [Idle EXCEPT !.session = s, !.handler = "start", !.pre = hist[s],
                         !.outbox = <<Welcome>>,
                         !.steps = <<"check_dependencies", "load_environment",
                                     "check_internet", "initialize_translators",
                                     IF readable THEN "load_history_from_file"
                                     ELSE "load_history_from_file!">>]

\* deps, env, init: whether check_dependencies, load_environment and
\* initialize_translators succeed; probe: what the connectivity probe does;
\* readable: whether the history file can be opened and read.
handle_chat_start(s, deps, env, probe, init, readable) ==
  LET net == check_internet(probe)
      failed(steps, message) ==
        /\ phase' = [phase EXCEPT ![s] = "Failed"]
        /\ obs' = [Idle EXCEPT !.session = s, !.handler = "start", !.pre = hist[s],
                               !.steps = steps, !.probe = probe,
                               !.outbox = <<message>>]
        /\ UNCHANGED <<trans, hist, log>>
  IN
  /\ phase[s] = "Uninitialized"
  \* a collaborator that is not called has no outcome
  /\ deps \/ env
  /\ (deps /\ env) \/ probe = "connected"
  /\ (deps /\ env /\ probe = "connected") \/ init
  /\ (deps /\ env /\ probe = "connected" /\ init) \/ readable
  /\ IF ~deps
     THEN failed(<<"check_dependencies">>, ErrDependencies)
     ELSE IF ~env
     THEN failed(<<"check_dependencies", "load_environment">>, ErrEnvironment)
     ELSE IF net.raised
     THEN /\ phase' = [phase EXCEPT ![s] = "Failed"]
          /\ obs' = [Idle EXCEPT !.session = s, !.handler = "start", !.pre = hist[s],
                                 !.escaped = TRUE, !.probe = probe,
                                 !.steps = <<"check_dependencies", "load_environment",
                                             "check_internet">>]
          /\ UNCHANGED <<trans, hist, log>>
     ELSE IF ~net.value
     THEN failed(<<"check_dependencies", "load_environment", "check_internet">>,
                 ErrNoInternet)
     ELSE IF ~init
     THEN failed(<<"check_dependencies", "load_environment", "check_internet",
                   "initialize_translators">>, ErrInitTranslators)
     ELSE Started(s, readable, load_history_from_file(file, readable))
  /\ UNCHANGED <<file, disk, clock, turns, faults>>

HandleChatStart(S) ==
  \E s \in S, deps \in BOOLEAN, env \in BOOLEAN, probe \in ProbeOutcomes,
     init \in BOOLEAN, readable \in BOOLEAN :
    handle_chat_start(s, deps, env, probe, init, readable)

\* ------------------------------------------------------------- handle_message
\* content: message.content; probe, call: as for translate_text;
\* save: as for save_history_to_file.
\* The handler is written as the stages of its code, each stage handing the
\* values it computed to the next.

\* the session history set only after a save that succeeded
Saved_AfterSave(s, content, appended, h2, out, probe, call, save, f) ==
  /\ hist' = IF save = "ok" THEN [hist EXCEPT ![s] = Stored(LastN(h2, MaxHistory))]
             ELSE hist
  /\ file' = f
  /\ disk' = IF save = "ok" THEN AsList(h2) ELSE IF save = "open" THEN disk ELSE Garbage
  /\ obs' = [session |-> s, handler |-> "message", input |-> content, pre |-> hist[s],
             fileChanged |-> f # file, outbox |-> <<out.response>>,
             steps |-> out.steps \o <<"save_history_to_file">>,
             appended |-> appended, probe |-> probe, call |-> call,
             path |-> out.path, escaped |-> FALSE,
             saved |-> IF save = "ok" THEN "ok" ELSE "failed"]
  /\ clock' = clock + 2
  /\ turns' = turns + 1
  /\ log' = [log EXCEPT ![s] = log[s] \o appended]
  /\ UNCHANGED <<phase, trans>>

\* lines 234-235 and 242-243: f is the file after save_history_to_file
Saved(s, content, appended, h2, out, probe, call, save, f) ==
  /\ hist' = [hist EXCEPT ![s] = Stored(LastN(h2, MaxHistory))]
  /\ file' = f
  /\ disk' = IF save = "ok" THEN AsList(h2) ELSE IF save = "open" THEN disk ELSE Garbage
  /\ obs' = [session |-> s, handler |-> "message", input |-> content, pre |-> hist[s],
             fileChanged |-> f # file, outbox |-> <<out.response>>,
             steps |-> out.steps \o <<"save_history_to_file">>,
             appended |-> appended, probe |-> probe, call |-> call,
             path |-> out.path, escaped |-> FALSE,
             saved |-> IF save = "ok" THEN "ok" ELSE "failed"]
  /\ clock' = clock + 2
  /\ turns' = turns + 1
  /\ log' = [log EXCEPT ![s] = log[s] \o appended]
  /\ UNCHANGED <<phase, trans>>

\* lines 233 and 241: the assistant entry joins the list
Responded(s, content, user, assistant, h1, out, probe, call, save) ==
  Saved(s, content, <<user, assistant>>, Append(h1, assistant), out, probe, call, save,
        save_history_to_file(file, Append(h1, assistant), save))

\* a collaborator that is not called has no outcome; failures are counted
Budget(steps, probe, call, save) ==
  /\ "check_internet" \in {steps[i] : i \in 1..Len(steps)} \/ probe = "connected"
  /\ {"en_to_ur", "ur_to_en"} \cap {steps[i] : i \in 1..Len(steps)} # {} \/ call = "returns"
  /\ faults + (IF probe # "connected" THEN 1 ELSE 0) + (IF call = "raises" THEN 1 ELSE 0)
            + (IF save # "ok" THEN 1 ELSE 0) <= MaxFaults
  /\ faults' = faults + (IF probe # "connected" THEN 1 ELSE 0)
                      + (IF call = "raises" THEN 1 ELSE 0)
                      + (IF save # "ok" THEN 1 ELSE 0)

\* the assistant entry recorded without the response
Dispatched_Blank(s, content, user, h1, out, probe, call, save) ==
  /\ Budget(out.steps, probe, call, save)
  /\ Responded(s, content, user,
               Entry("assistant", <<>>, get_current_timestamp(clock + 1)),
               h1, out, probe, call, save)

\* lines 231 and 237-240: out.response is sent
Dispatched(s, content, user, h1, out, probe, call, save) ==
  /\ Budget(out.steps, probe, call, save)
  /\ Responded(s, content, user,
               Entry("assistant", out.response, get_current_timestamp(clock + 1)),
               h1, out, probe, call, save)

\* line 227; an exception of process_command reaches the except clause
CommandOutcome(cmd) ==
  [response |-> IF cmd.raised THEN MsgError(cmd.response) ELSE cmd.response,
   path |-> IF cmd.raised THEN "except" ELSE "normal",
   steps |-> <<"process_command">>]

\* line 229
TranslateOutcome(tr) ==
  [response |-> tr.result, path |-> "normal", steps |-> <<"translate_text">> \o tr.steps]

\* process_command reading the history as it was before the turn
Recorded_NoAlias(s, content, user_input, user, h1, probe, call, save) ==
  Dispatched(s, content, user, h1,
             IF startswith(lower(user_input), <<"/">>)
             THEN CommandOutcome(process_command(user_input, hist[s]))
             ELSE TranslateOutcome(translate_text(trans[s], user_input, probe, call)),
             probe, call, save)

\* lines 226-229: h1 is the list after the user entry was appended; the
\* append is seen through the session when the list is the stored one
Recorded(s, content, user_input, user, h1, probe, call, save) ==
  Dispatched(s, content, user, h1,
             IF startswith(lower(user_input), <<"/">>)
             THEN CommandOutcome(process_command(user_input,
                                   IF hist[s].set THEN Stored(h1) ELSE Unset))
             ELSE TranslateOutcome(translate_text(trans[s], user_input, probe, call)),
             probe, call, save)

\* line 224
Received(s, content, user_input, user, probe, call, save) ==
  Recorded(s, content, user_input, user, Append(SessionGet(hist[s]), user),
           probe, call, save)

\* lines 217-221
handle_message(s, content, probe, call, save) ==
  /\ phase[s] # "Uninitialized"
  /\ turns < MaxTurns
  /\ Received(s, content, strip(content),
              Entry("user", strip(content), get_current_timestamp(clock)),
              probe, call, save)

\* the messages a user sends: /clear in capitals and with surrounding
\* whitespace, /history, an unrecognised command, and a text to translate
Inputs ==
  {<<SP, "/", "C", "L", "E", "A", "R", NL>>,
   <<"/", "h", "i", "s", "t", "o", "r", "y">>,
   <<"/", BSL, "n">>,
   <<"H", "i", QUOTE>>}

HandleMessage(S) ==
  \E s \in S, content \in Inputs, probe \in ProbeOutcomes,
     call \in {"returns", "raises"}, save \in SaveOutcomes :
    handle_message(s, content, probe, call, save)

\* one chat session
Next == HandleChatStart({1}) \/ HandleMessage({1})

Spec == Init /\ [][Next]_vars

\* ------------------------------------------------ sessions side by side
\* two chat sessions of one server process, their handlers interleaved one
\* whole handler at a time
\* every pre-flight step succeeds; the history file may be unreadable
StartSessions ==
  \E s \in Sessions, readable \in BOOLEAN :
    handle_chat_start(s, TRUE, TRUE, "connected", TRUE, readable)

\* a translation or a /history; the probe and the translation call succeed;
\* the save succeeds or its open() fails
TurnSessions ==
  \E s \in Sessions,
     content \in {<<"H", "i", QUOTE>>, <<"/", "h", "i", "s", "t", "o", "r", "y">>},
     save \in {"ok", "open"} :
    handle_message(s, content, "connected", "returns", save)

NextSessions == StartSessions \/ TurnSessions

SpecSessions == Init /\ [][NextSessions]_vars

\* ----------------------------------------------- translate_text on its own
\* translate_text applied to texts of every kind the validator and the
\* detector tell apart
Texts ==
  {<<>>,
   <<SP>>,
   <<"H", "i", QUOTE>>,
   <<"U+0633", "U+0644">>,
   <<"U+0633", "U+061F">>,
   <<"1", "2">>,
   <<"a", SP, "U+0633">>,
   <<"/", "x">>,
   <<"!", "?">>}

Translate ==
  \E translators \in {"none", "pair"}, text \in Texts, probe \in ProbeOutcomes,
     call \in {"returns", "raises"} :
    LET tr == translate_text(translators, text, probe, call) IN
    /\ trans' = [trans EXCEPT ![1] = translators]
    /\ obs' = [Idle EXCEPT !.session = 1, !.handler = "translate", !.input = text,
                           !.probe = probe, !.call = call, !.steps = tr.steps,
                           !.outbox = <<tr.result>>]
    /\ UNCHANGED <<phase, hist, file, disk, clock, turns, faults, log>>

NextTranslate == Translate

SpecTranslate == Init /\ [][NextTranslate]_vars

\* ---------------------------------------------- detect_language on its own
\* detect_language applied to every text of up to MaxTextLen symbols drawn
\* from: Latin letters a-z and A-Z, a Latin letter outside them, an Arabic
\* letter, an Arabic punctuation mark, a digit and a space
DetectAlphabet == {"a", "A", "U+00E9", "U+0633", "U+061F", "1", SP}

DetectTexts == UNION {[1..n -> DetectAlphabet] : n \in 0..MaxTextLen}

Detect ==
  \E text \in DetectTexts :
    /\ obs.handler # "detect"
    /\ obs' = [Idle EXCEPT !.handler = "detect", !.input = text,
                           !.steps = <<"detect_language">>,
                           !.outbox = <<Str(detect_language(text))>>]
    /\ UNCHANGED <<phase, trans, hist, file, disk, clock, turns, faults, log>>

NextDetect == Detect

SpecDetect == Init /\ [][NextDetect]_vars

\* ------------------------------------------- the history file on its own
\* save_history_to_file and load_history_from_file applied to lists of
\* entries whose contents hold the symbols JSON treats specially
RoundTripContents ==
  {<<>>,
   <<"H", "i", QUOTE>>,
   <<BSL, "n", NL, BSL>>,
   <<"U+0633", ",", SP, "}", "]", "{", "[", ":">>}

RoundTripLists ==
  {<<>>}
  \cup {<<Entry("user", c, get_current_timestamp(1))>> : c \in RoundTripContents}
  \cup {<<Entry("user", c, get_current_timestamp(1)),
          Entry("assistant", d, get_current_timestamp(2))>> :
          c \in RoundTripContents, d \in RoundTripContents}

Save ==
  \E history \in RoundTripLists, outcome \in SaveOutcomes :
    /\ turns < MaxTurns
    /\ file' = save_history_to_file(file, history, outcome)
    /\ disk' = IF outcome = "ok" THEN AsList(history)
               ELSE IF outcome = "open" THEN disk ELSE Garbage
    /\ obs' = [Idle EXCEPT !.handler = "save",
                           !.steps = <<"save_history_to_file">>,
                           !.saved = IF outcome = "ok" THEN "ok" ELSE "failed"]
    /\ turns' = turns + 1
    /\ UNCHANGED <<phase, trans, hist, clock, faults, log>>

Load ==
  \E readable \in BOOLEAN :
    /\ obs.handler # "load"
    /\ hist' = [hist EXCEPT ![1] = Stored(load_history_from_file(file, readable))]
    /\ obs' = [Idle EXCEPT !.handler = "load", 
                           !.steps = <<IF readable THEN "load_history_from_file"
                                       ELSE "load_history_from_file!">>]
    /\ UNCHANGED <<phase, trans, file, disk, clock, turns, faults, log>>

NextFile == Save \/ Load

SpecFile == Init /\ [][NextFile]_vars

\* ==================================================================== claims
\* what the last handler run was
IsTurn == obs.handler = "message"
TurnInput == strip(obs.input)
TurnIsCommand == IsTurn /\ startswith(lower(TurnInput), <<"/">>)
TurnCommand == strip(lower(TurnInput))
IsClearTurn == TurnIsCommand /\ TurnCommand = <<"/", "c", "l", "e", "a", "r">>
IsHistoryTurn == TurnIsCommand /\ TurnCommand = <<"/", "h", "i", "s", "t", "o", "r", "y">>
IsUnknownCommandTurn == TurnIsCommand /\ ~IsClearTurn /\ ~IsHistoryTurn
IsTranslateTurn == IsTurn /\ ~TurnIsCommand
IsTranslateCall == obs.handler = "translate"
StepSet == {obs.steps[i] : i \in 1..Len(obs.steps)}
HandleCalls == SelectSeq(obs.steps, LAMBDA c : c \in {"en_to_ur", "ur_to_en"})
\* the list the turn worked on: the history it found, then its two entries
TurnList == SessionGet(obs.pre) \o obs.appended

\* C1: after every completed handle_message turn, on the normal path or the
\* exception path, the stored session history has at most 10 entries and is
\* the most recent entries of (pre-turn history followed by the entries the
\* turn appended), in their original order.
C1_HistoryIsRecentTail ==
  IsTurn =>
    LET h == hist[obs.session].list
        drop == Len(TurnList) - Len(h)
    IN  /\ hist[obs.session].set
        /\ Len(h) <= 10
        /\ Len(h) = IF Len(TurnList) < 10 THEN Len(TurnList) ELSE 10
        /\ \A i \in 1..Len(h) : h[i] = TurnList[drop + i]

\* a turn on the exception path that had to drop the oldest entries
C1_Witness ==
  /\ IsTurn
  /\ obs.path = "except"
  /\ Len(TurnList) > 10
  /\ Len(hist[obs.session].list) = 10

\* C2: in a Ready session, a /clear turn followed immediately by a /history
\* turn makes the /history turn answer "No translation history available.".
C2_ClearThenHistory ==
  [][(/\ IsClearTurn
      /\ phase[obs.session] = "Ready"
      /\ IsHistoryTurn'
      /\ obs'.session = obs.session)
     => obs'.outbox = <<MsgNoHistory>>]_vars

\* C3: when a /clear turn (any letter case, surrounding whitespace trimmed)
\* completes, the session history is empty and the response sent is
\* "Translation history cleared.".
C3_ClearEmptiesHistory ==
  IsClearTurn =>
    /\ SessionGet(hist[obs.session]) = <<>>
    /\ obs.outbox = <<MsgCleared>>

\* C4: a session whose chat start failed is terminal: no later inbound
\* message changes its history, invokes a translator or writes the file.
C4_FailedIsTerminal ==
  [][\A s \in Sessions :
       (phase[s] = "Failed" /\ obs'.handler = "message" /\ obs'.session = s)
       => /\ hist'[s] = hist[s]
          /\ file' = file
          /\ obs'.saved = "none"
          /\ {"en_to_ur", "ur_to_en"} \cap {obs'.steps[i] : i \in 1..Len(obs'.steps)} = {}]_vars

\* C5: translate_text checks (1) translators initialised, (2) connectivity
\* available, (3) validate_input, (4) detect_language not 'unknown', in that
\* order, and returns the error string of the first precondition that fails
\* without evaluating a later one or invoking a translation handle.
C5_PreconditionOrder ==
  IsTranslateCall =>
    IF trans[obs.session] = "none"
    THEN /\ obs.outbox = <<ErrNotInitialized>>
         /\ StepSet \cap {"check_internet", "validate_input", "detect_language"} = {}
         /\ HandleCalls = <<>>
    ELSE IF obs.probe # "connected"
    THEN /\ obs.outbox = <<ErrNoInternet>>
         /\ StepSet \cap {"validate_input", "detect_language"} = {}
         /\ HandleCalls = <<>>
    ELSE IF ~validate_input(obs.input)
    THEN /\ obs.outbox = <<ErrInvalidInput>>
         /\ "detect_language" \notin StepSet
         /\ HandleCalls = <<>>
    ELSE IF detect_language(obs.input) = "unknown"
    THEN /\ obs.outbox = <<ErrUnknownLanguage>>
         /\ HandleCalls = <<>>
    ELSE TRUE

\* C6: with initialised translators, whenever the connectivity probe fails to
\* connect, for any connection error, translate_text returns exactly
\* "Error: No internet connection. Please check your network." and calls no
\* translation handle.
C6_NoInternetMessage ==
  (IsTranslateCall /\ trans[obs.session] = "pair" /\ obs.probe # "connected")
  => /\ obs.outbox = <<ErrNoInternet>>
     /\ HandleCalls = <<>>

\* C7 as stated: after every turn of a Ready session whose save succeeds the
\* file holds the loaded entries and every entry appended since.
C7_FileHoldsFullHistory ==
  (IsTurn /\ phase[obs.session] = "Ready" /\ obs.saved = "ok")
  => load_history_from_file(file, TRUE) = log[obs.session]

\* C7 (amended): after every turn whose save succeeds the file holds the list
\* that turn worked on, uncapped: the session history found at the start of
\* the turn followed by the turn's two entries; these are the newest entries
\* of the full history, and the session keeps the last 10 of them.
C7_FileHoldsTurnList ==
  (IsTurn /\ obs.saved = "ok")
  => LET inFile == load_history_from_file(file, TRUE)
         full == log[obs.session]
     IN  /\ inFile = TurnList
         /\ Len(inFile) <= Len(full)
         /\ inFile = SubSeq(full, Len(full) - Len(inFile) + 1, Len(full))
         /\ Len(hist[obs.session].list) <= Len(inFile)
         /\ hist[obs.session].list =
              SubSeq(inFile, Len(inFile) - Len(hist[obs.session].list) + 1, Len(inFile))

\* a successful save that left entries of the session out of the file
C7_Witness ==
  /\ IsTurn
  /\ phase[obs.session] = "Ready"
  /\ obs.saved = "ok"
  /\ Len(load_history_from_file(file, TRUE)) > 10
  /\ Len(log[obs.session]) > Len(load_history_from_file(file, TRUE))

\* C8: no exception escapes handle_chat_start or handle_message, whatever a
\* collaborator does, and translate_text turns an exception of the
\* translation call into a formatted error string.
C8_NoExceptionEscapes ==
  /\ ~obs.escaped
  /\ (IsTranslateTurn /\ obs.call = "raises")
     => obs.outbox = <<ErrUnable(StrTranslate)>>

\* C9 as stated: a turn whose input starts with "/" and is neither command
\* answers "Unknown command. Available: /history, /clear" and leaves the
\* session history and the history file as they were.
C9_UnknownCommandNoChange ==
  IsUnknownCommandTurn =>
    /\ obs.outbox = <<MsgUnknownCommand>>
    /\ hist[obs.session] = obs.pre
    /\ ~obs.fileChanged

\* C9 (amended): such a turn answers with the fixed message and changes the
\* state only as every turn does: the user entry and an assistant entry
\* holding that message are appended to the history, the session keeps the
\* last 10, and a successful save writes the uncapped list to the file.
C9_UnknownCommandRecorded ==
  IsUnknownCommandTurn =>
    /\ obs.outbox = <<MsgUnknownCommand>>
    /\ Len(obs.appended) = 2
    /\ obs.appended[1].role = Str("user") /\ obs.appended[1].content = TurnInput
    /\ obs.appended[2].role = Str("assistant")
    /\ obs.appended[2].content = MsgUnknownCommand
    /\ hist[obs.session] = Stored(LastN(TurnList, 10))
    /\ obs.saved = "ok" => file = [exists |-> TRUE, data |-> json_dump(TurnList)]

\* an unknown command whose turn changed both the history and the file
C9_Witness ==
  /\ IsUnknownCommandTurn
  /\ obs.saved = "ok"
  /\ hist[obs.session] # obs.pre
  /\ obs.fileChanged

\* C10: a list of entries written by a successful save_history_to_file is
\* returned unchanged, in order, by load_history_from_file as long as no
\* other write intervened; with the file absent, unreadable or unparsable
\* the load returns the empty list.
C10_RoundTrip ==
  obs.handler = "load" =>
    LET loaded == hist[1].list
        readable == obs.steps = <<"load_history_from_file">>
    IN  /\ (disk.kind = "list" /\ readable) => loaded = disk.list
        /\ (disk.kind # "list" \/ ~readable) => loaded = <<>>

\* a load that returned a two-entry list holding a quote and a backslash
C10_Witness ==
  /\ obs.handler = "load"
  /\ turns > 0
  /\ disk.kind = "list"
  /\ Len(hist[1].list) = 2
  /\ hist[1].list[1].content = <<"H", "i", QUOTE>>
  /\ hist[1].list[2].content = <<BSL, "n", NL, BSL>>

\* C11: when every precondition of translate_text holds and the translation
\* call returns t, exactly one translation call is made, on the handle of
\* the detected language: English text goes to en_to_ur and the result is
\* "Translation to Urdu: t"; Urdu text goes to ur_to_en and the result is
\* "Translation to English: t"; the other handle is not invoked.
C11_OneMatchingHandle ==
  (/\ IsTranslateCall
   /\ trans[obs.session] = "pair"
   /\ obs.probe = "connected"
   /\ validate_input(obs.input)
   /\ detect_language(obs.input) # "unknown"
   /\ obs.call = "returns")
  => IF detect_language(obs.input) = "en"
     THEN /\ HandleCalls = <<"en_to_ur">>
          /\ obs.outbox = <<<<"Translation to ", "Urdu", ":", SP>> \o Translated("en_to_ur")>>
     ELSE /\ HandleCalls = <<"ur_to_en">>
          /\ obs.outbox = <<<<"Translation to ", "English", ":", SP>> \o Translated("ur_to_en")>>

\* a text of Latin and Arabic letters translated to English by ur_to_en
C11_Witness ==
  /\ IsTranslateCall
  /\ obs.input = <<"a", SP, "U+0633">>
  /\ obs.call = "returns"
  /\ HandleCalls = <<"ur_to_en">>
  /\ obs.outbox = <<<<"Translation to ", "English", ":", SP, "H", "i">>>>

\* what the last detect_language call was given and returned
IsDetectCall == obs.handler = "detect"
HasArabic == \E i \in 1..Len(obs.input) : obs.input[i] \in ArabicBlock
HasAsciiLetter == \E i \in 1..Len(obs.input) : obs.input[i] \in LatinUpper \cup LatinLower
HasLatinLetter ==
  \E i \in 1..Len(obs.input) : obs.input[i] \in LatinUpper \cup LatinLower \cup LatinExtended

\* C12 as stated: Urdu for every text with an Arabic-script character,
\* English for every text with a Latin letter and no Arabic-script
\* character, Unknown for every other text.
C12_ThreeWayLatin ==
  IsDetectCall =>
    obs.outbox = <<Str(IF HasArabic THEN "ur"
                       ELSE IF HasLatinLetter THEN "en"
                       ELSE "unknown")>>

\* C12 (amended): Urdu for every text with a character of U+0600-U+06FF,
\* whatever else it holds; English for every text without one that has a
\* letter of a-z or A-Z; Unknown for every other text, texts whose only
\* letters are Latin letters outside a-z and A-Z included.
C12_ThreeWayAscii ==
  IsDetectCall =>
    /\ HasArabic => obs.outbox = <<Str("ur")>>
    /\ (~HasArabic /\ HasAsciiLetter) => obs.outbox = <<Str("en")>>
    /\ (~HasArabic /\ ~HasAsciiLetter) => obs.outbox = <<Str("unknown")>>

\* a text of Latin letters around an Arabic one, classified as Urdu
C12_Witness ==
  /\ IsDetectCall
  /\ obs.input = <<"a", "U+0633", "A">>
  /\ obs.outbox = <<Str("ur")>>

\* C13: when the history file write fails during a turn the turn still
\* completes: one response is sent, no exception escapes, and the session
\* history is the capped list it would be after a successful write; the
\* next turn of the session starts from that in-memory history.
C13_SaveFailureKeepsHistory ==
  [][/\ (obs'.handler = "message" /\ obs'.saved = "failed")
        => /\ ~obs'.escaped
           /\ Len(obs'.outbox) = 1
           /\ Len(obs'.appended) = 2
           /\ obs'.appended[2].content = obs'.outbox[1]
           /\ hist'[obs'.session] =
                Stored(LastN(SessionGet(hist[obs'.session]) \o obs'.appended, 10))
     /\ (IsTurn /\ obs.saved = "failed" /\ obs'.handler = "message"
           /\ obs'.session = obs.session)
        => /\ obs'.pre = hist[obs.session]
           /\ hist'[obs.session] = Stored(LastN(hist[obs.session].list \o obs'.appended, 10))
           /\ IsHistoryTurn' /\ obs'.path = "normal"
              => obs'.outbox =
                   <<join(<<NL>>, [i \in 1..(Len(hist[obs.session].list) + 1) |->
                                    RenderEntry((hist[obs.session].list
                                                 \o obs'.appended)[i])])>>]_vars

\* a /history turn that renders the entries of a /clear turn whose write
\* had failed
C13_Witness ==
  /\ IsHistoryTurn
  /\ obs.path = "normal"
  /\ turns = 2
  /\ faults = 1
  /\ obs.saved = "ok"
  /\ obs.pre.set
  /\ Len(obs.pre.list) >= 2
  /\ obs.pre.list[Len(obs.pre.list)].content = MsgCleared
  /\ Len(obs.outbox[1]) > Len(MsgCleared)

\* the steps of handle_chat_start in their fixed order, and the message
\* each one sends when it fails; the history load has none: it returns a
\* list whatever happens
StartOrder ==
  <<"check_dependencies", "load_environment", "check_internet",
    "initialize_translators", "load_history_from_file">>
StartError == <<ErrDependencies, ErrEnvironment, ErrNoInternet, ErrInitTranslators>>
StartSteps ==
  [i \in 1..Len(obs.steps) |->
     IF obs.steps[i] = "load_history_from_file!" THEN "load_history_from_file"
     ELSE obs.steps[i]]

\* C14: handle_chat_start runs dependency check, environment load,
\* connectivity probe, translator initialisation and history load in that
\* order; the first step that fails sends exactly its own error message, no
\* later step runs and neither translators nor history are stored; only
\* when every step succeeded are both stored and the welcome message sent.
C14_StartOrder ==
  obs.handler = "start" =>
    /\ Len(obs.steps) \in 1..5
    /\ StartSteps = SubSeq(StartOrder, 1, Len(obs.steps))
    /\ IF Len(obs.steps) < 5
       THEN /\ obs.outbox = <<StartError[Len(obs.steps)]>>
            /\ trans[obs.session] = "none"
            /\ ~hist[obs.session].set
            /\ phase[obs.session] = "Failed"
       ELSE /\ obs.outbox = <<Welcome>>
            /\ trans[obs.session] = "pair"
            /\ hist[obs.session].set
            /\ phase[obs.session] = "Ready"

\* C15: every turn of a Ready session appends one user entry holding the
\* trimmed input, dispatches to process_command exactly when the trimmed
\* input starts with "/" and to translate_text otherwise, never to both,
\* sends one response, appends one assistant entry holding the response
\* sent, caps the session history to 10 and saves last; the turn adds the
\* user entry followed by the assistant entry and nothing else.
C15_TurnOrder ==
  (IsTurn /\ phase[obs.session] = "Ready") =>
    /\ Len(obs.appended) = 2
    /\ obs.appended[1].role = Str("user")
    /\ obs.appended[1].content = strip(obs.input)
    /\ Len(obs.outbox) = 1
    /\ obs.appended[2].role = Str("assistant")
    /\ obs.appended[2].content = obs.outbox[1]
    /\ obs.steps[1] = IF startswith(strip(obs.input), <<"/">>) THEN "process_command"
                      ELSE "translate_text"
    /\ ~({"process_command", "translate_text"} \subseteq StepSet)
    /\ obs.steps[Len(obs.steps)] = "save_history_to_file"
    /\ Len(SelectSeq(obs.steps, LAMBDA c : c = "save_history_to_file")) = 1
    /\ hist[obs.session] = Stored(LastN(TurnList, 10))
    /\ Len(hist[obs.session].list) >= 2
    /\ SubSeq(hist[obs.session].list, Len(hist[obs.session].list) - 1,
              Len(hist[obs.session].list)) = obs.appended

\* a translation turn of a Ready session whose history had to be capped
C15_Witness ==
  /\ IsTranslateTurn
  /\ phase[obs.session] = "Ready"
  /\ obs.outbox = <<<<"Translation to ", "Urdu", ":", SP, "U+0633", "U+0644">>>>
  /\ Len(TurnList) > 10
  /\ Len(hist[obs.session].list) = 10
  /\ hist[obs.session].list[10].content = obs.outbox[1]
  /\ obs.saved = "ok"

\* the entries of a list
Entries(list) == {list[i] : i \in 1..Len(list)}

\* C16: with sessions interleaving their turns, a session's history and
\* translators are changed only by that session's own handlers; the file
\* is changed only by saves, and after a successful save it holds exactly
\* the list the saving session wrote (last writer wins), every entry of
\* which that session had loaded or appended itself.
C16_LastWriterWins ==
  [][/\ \A s \in Sessions :
          (hist'[s] # hist[s] \/ trans'[s] # trans[s] \/ phase'[s] # phase[s])
          => obs'.session = s
     /\ obs'.handler = "start" => file' = file
     /\ (obs'.handler = "message" /\ obs'.saved = "ok")
        => /\ file' = [exists |-> TRUE,
                       data |-> json_dump(SessionGet(hist[obs'.session]) \o obs'.appended)]
           /\ Entries(SessionGet(hist[obs'.session]) \o obs'.appended)
                \subseteq Entries(log'[obs'.session])
    ]_vars

\* both sessions Ready and every save so far successful: the save of
\* session 2 removed from the file an entry that session 1 had saved
C16_Witness ==
  /\ IsTurn
  /\ obs.session = 2
  /\ obs.saved = "ok"
  /\ faults = 0
  /\ phase[1] = "Ready" /\ phase[2] = "Ready"
  /\ \E e \in Entries(log[1]) :
       /\ e.content = <<"H", "i", QUOTE>>
       /\ e \notin Entries(load_history_from_file(file, TRUE))
  /\ \E e \in Entries(load_history_from_file(file, TRUE)) : e.content = <<"o", "l", "d">>

\* the list a /history turn renders: the history the turn found and the
\* user entry of the command itself
RenderedList == SessionGet(obs.pre) \o <<obs.appended[1]>>
\* the lines of a text
Lines(text) == 1 + Len(SelectSeq(text, LAMBDA c : c = NL))

\* C17 as stated: in a Ready session a /history turn renders the pre-turn
\* history followed by the user entry of the /history command itself, so
\* between 1 and 11 entries, the last one being the /history entry.
C17_HistoryAtMostEleven ==
  (IsHistoryTurn /\ phase[obs.session] = "Ready" /\ obs.path = "normal")
  => /\ obs.outbox = <<join(<<NL>>, [i \in 1..Len(RenderedList) |->
                                       RenderEntry(RenderedList[i])])>>
     /\ Len(RenderedList) \in 1..11

\* C17 (amended): in a Ready session a /history turn renders, one rendered
\* entry per element joined by newlines, the pre-turn history followed by
\* the user entry of the /history command itself, which comes last; there
\* are at most 11 entries once the session has had a turn, and n + 1 on the
\* first turn of a session that loaded n entries, n not being capped; when
\* a loaded entry lacks a key the turn answers "Error: '<key>'" instead.
C17_HistoryRendersOwnEntry ==
  (IsHistoryTurn /\ phase[obs.session] = "Ready")
  => IF obs.path = "normal"
     THEN /\ obs.outbox = <<join(<<NL>>, [i \in 1..Len(RenderedList) |->
                                            RenderEntry(RenderedList[i])])>>
          /\ RenderedList[Len(RenderedList)].content = strip(obs.input)
          /\ RenderedList[Len(RenderedList)].role = Str("user")
          /\ Len(RenderedList) = Len(obs.pre.list) + 1
          /\ Len(RenderedList) > 11 => log[obs.session] = TurnList
          /\ Lines(obs.outbox[1]) >= Len(RenderedList)
     ELSE /\ \E i \in 1..Len(obs.pre.list) :
               ~({"timestamp", "role", "content"} \subseteq DOMAIN obs.pre.list[i])
          /\ obs.outbox = <<MsgError(StrKeyError(MissingKey(obs.pre.list)))>>

\* the first turn of a session that loaded more than 10 entries: /history
\* renders more than 11
C17_Witness ==
  /\ IsHistoryTurn
  /\ phase[obs.session] = "Ready"
  /\ obs.path = "normal"
  /\ Len(RenderedList) > 11
  /\ Lines(obs.outbox[1]) > 11
  /\ RenderedList[Len(RenderedList)].content = <<"/", "h", "i", "s", "t", "o", "r", "y">>

\* C18: every successful save of a Ready session writes exactly the session
\* history found at the start of the turn followed by the turn's user and
\* assistant entries; the loaded list is not capped, so the first turn of a
\* session started from a file of n entries writes n + 2 entries, and every
\* later turn writes at most 12.
C18_SaveWritesPreTurnPlusTwo ==
  [][(obs'.handler = "message" /\ phase'[obs'.session] = "Ready" /\ obs'.saved = "ok")
     => /\ file' = [exists |-> TRUE,
                    data |-> json_dump(SessionGet(hist[obs'.session]) \o obs'.appended)]
        /\ Len(obs'.appended) = 2
        /\ obs'.appended[1].role = Str("user")
        /\ obs'.appended[2].role = Str("assistant")
        /\ (obs.handler = "start" /\ obs.session = obs'.session)
           => Len(SessionGet(hist[obs'.session]) \o obs'.appended)
                = 2 + (IF obs.steps[Len(obs.steps)] = "load_history_from_file"
                          /\ disk.kind = "list"
                       THEN Len(disk.list) ELSE 0)
        /\ (obs.handler = "message" /\ obs.session = obs'.session)
           => Len(SessionGet(hist[obs'.session]) \o obs'.appended) <= 12
    ]_vars

\* the first turn of a session that loaded more than 10 entries: the file
\* written holds all of them and the two new ones
C18_Witness ==
  /\ IsTurn
  /\ phase[obs.session] = "Ready"
  /\ obs.saved = "ok"
  /\ log[obs.session] = TurnList
  /\ Len(TurnList) > 12
  /\ file = [exists |-> TRUE, data |-> json_dump(TurnList)]
  /\ Len(hist[obs.session].list) = 10

====
